---- MODULE Spec2Model ----
(***************************************************************************)
(* Calendar mixins of app/mixins.py: month and week date grids, the        *)
(* previous/next navigators, the rotated week labels, and the binding of   *)
(* Schedule records and of formset forms to the days of a month grid.      *)
(*                                                                         *)
(* A date is a record [year, month, day].  A Python call that may raise is *)
(* modelled by a record [exc, val]: exc = "none" and val the returned      *)
(* value, or exc the name of the exception raised.  A Python dict is the   *)
(* sequence of its <<key, value>> pairs in insertion order.                *)
(***************************************************************************)
EXTENDS Integers, Sequences, FiniteSets, TLC

VARIABLES first_weekday, objects, kwargs, method, POST, today, pc, view, exc, context

vars == <<first_weekday, objects, kwargs, method, POST, today, pc, view, exc, context>>

(***************************************************************************)
(* Python values                                                           *)
(***************************************************************************)
\* x = v; F(x): a local variable, evaluated once.
Let(v, F(_)) == CHOOSE r \in {F(x) : x \in {v}} : TRUE

Return(v) == [exc |-> "none", val |-> v]

Raise(e) == [exc |-> e, val |-> <<>>]

\* list(f): the Python list whose items are f[1], f[2], ...
list(f) == f \o <<>>

None == [t |-> "none", n |-> 0]

IntV(n) == [t |-> "int", n |-> n]

StrV(n) == [t |-> "str", n |-> n]

\* bool(v) of a URL keyword argument: None and the integer 0 are false, a
\* captured (non-empty) digit string is true whatever its value.
Truthy(v) == v.t = "str" \/ (v.t = "int" /\ v.n # 0)

\* int(v) of a URL keyword argument that is an integer or a digit string.
int(v) == v.n

(***************************************************************************)
(* datetime.date                                                           *)
(***************************************************************************)
MINYEAR == 1

MAXYEAR == 9999

D(y, m, d) == [year |-> y, month |-> m, day |-> d]

isleap(y) == y % 4 = 0 /\ (y % 100 # 0 \/ y % 400 = 0)

mdays == <<31, 28, 31, 30, 31, 30, 31, 31, 30, 31, 30, 31>>

monthlen(y, m) == mdays[m] + (IF m = 2 /\ isleap(y) THEN 1 ELSE 0)

days_before_year(y) == (y - 1) * 365 + ((y - 1) \div 4) - ((y - 1) \div 100) + ((y - 1) \div 400)

RECURSIVE days_before_month(_, _)
days_before_month(y, m) == IF m = 1 THEN 0 ELSE days_before_month(y, m - 1) + monthlen(y, m - 1)

\* date.toordinal(): 0001-01-01 is day 1.
toordinal(d) == days_before_year(d.year) + days_before_month(d.year, d.month) + d.day

\* date.weekday(): Monday is 0, Sunday is 6.
weekday(d) == (toordinal(d) + 6) % 7

ValidDate(y, m, d) ==
    /\ MINYEAR <= y /\ y <= MAXYEAR
    /\ 1 <= m /\ m <= 12
    /\ 1 <= d /\ d <= monthlen(y, m)

\* datetime.date(year, month, day): ValueError outside the supported range.
date(y, m, d) == IF ValidDate(y, m, d) THEN Return(D(y, m, d)) ELSE Raise("ValueError")

(***************************************************************************)
(* calendar.Calendar(first_weekday).monthdatescalendar(year, month)        *)
(***************************************************************************)
prevmonth(y, m) == IF m = 1 THEN <<y - 1, 12>> ELSE <<y, m - 1>>

nextmonth(y, m) == IF m = 12 THEN <<y + 1, 1>> ELSE <<y, m + 1>>

\* The triples of a month grid given the weekday of the 1st, the number of
\* days before and after the month.
month_triples(y, m, days_before, days_after) ==
    Let(prevmonth(y, m), LAMBDA p :
    Let(nextmonth(y, m), LAMBDA n :
    Let(monthlen(p[1], p[2]) + 1, LAMBDA end :
        [i \in 1..days_before |-> <<p[1], p[2], end - days_before + i - 1>>]
        \o [i \in 1..monthlen(y, m) |-> <<y, m, i>>]
        \o [i \in 1..days_after |-> <<n[1], n[2], i>>])))

\* Variant: the leading days counted from the wrong side of the week.
itermonthdays3_swapped(fw, y, m) ==
    Let(weekday(D(y, m, 1)), LAMBDA day1 :
        month_triples(y, m, (fw - day1) % 7, (fw - day1 - monthlen(y, m)) % 7))

\* Variant: a month ending on the last day of a week gets a whole extra week.
itermonthdays3_extra_week(fw, y, m) ==
    Let(weekday(D(y, m, 1)), LAMBDA day1 :
        month_triples(y, m, (day1 - fw) % 7, 7 - ((((day1 - fw) % 7) + monthlen(y, m)) % 7)))

\* Calendar.itermonthdays3: the (year, month, day) triples of the month,
\* preceded by the days_before days that complete its first week and
\* followed by the days_after days that complete its last week.
itermonthdays3(fw, y, m) ==
    Let(weekday(D(y, m, 1)), LAMBDA day1 :
        month_triples(y, m, (day1 - fw) % 7, (fw - day1 - monthlen(y, m)) % 7))

\* Calendar.itermonthdates: each triple becomes a datetime.date; the
\* construction raises ValueError when a padding day leaves MINYEAR..MAXYEAR.
itermonthdates(fw, y, m) ==
    Let(itermonthdays3(fw, y, m), LAMBDA t :
        IF \E i \in 1..Len(t) : ~ValidDate(t[i][1], t[i][2], t[i][3])
        THEN Raise("ValueError")
        ELSE Return(list([i \in 1..Len(t) |-> D(t[i][1], t[i][2], t[i][3])])))

\* Calendar.monthdatescalendar: the dates cut into lists of 7.
monthdatescalendar(fw, y, m) ==
    Let(itermonthdates(fw, y, m), LAMBDA r :
        IF r.exc # "none" THEN r
        ELSE Return(list([w \in 1..(Len(r.val) \div 7) |->
                            SubSeq(r.val, 7 * (w - 1) + 1, 7 * w)])))

(***************************************************************************)
(* BaseCalendarMixin                                                       *)
(***************************************************************************)
\* The labels, from Monday ("cet" stands for the source's "čet").
week_names == <<"pon", "uto", "sri", "cet", "pet", "sub", "ned">>

\* Variant: deque.rotate(1), the rightmost element moves to the left end.
rotate_right(q) == IF q = <<>> THEN q ELSE <<q[Len(q)]>> \o SubSeq(q, 1, Len(q) - 1)

\* deque.rotate(-1): the leftmost element moves to the right end.
rotate_left(q) == IF q = <<>> THEN q ELSE Append(Tail(q), Head(q))

\* deque.rotate(-n) for n >= 0
RECURSIVE rotate(_, _)
rotate(q, n) == IF n = 0 THEN q ELSE rotate(rotate_left(q), n - 1)

\* get_week_names: week_names.rotate(-first_weekday)
get_week_names(fw) == rotate(week_names, fw)

(***************************************************************************)
(* MonthCalendarMixin                                                      *)
(***************************************************************************)
\* date.replace(year, month, day): builds a new date, ValueError if invalid.
replace(d, y, m, dd) == date(y, m, dd)

get_previous_month(d) ==
    IF d.month = 1 THEN replace(d, d.year - 1, 12, 1)
    ELSE replace(d, d.year, d.month - 1, 1)

\* Variant: December turns into January of the same year.
get_next_month_same_year(d) ==
    IF d.month = 12 THEN replace(d, d.year, 1, 1)
    ELSE replace(d, d.year, d.month + 1, 1)

get_next_month(d) ==
    IF d.month = 12 THEN replace(d, d.year + 1, 1, 1)
    ELSE replace(d, d.year, d.month + 1, 1)

get_month_days(fw, d) == monthdatescalendar(fw, d.year, d.month)

get_current_month(kw, now) ==
    IF Truthy(kw.month) /\ Truthy(kw.year)
    THEN date(int(kw.year), int(kw.month), 1)
    ELSE replace(now, now.year, now.month, 1)

\* MonthCalendarMixin.get_month_calendar: the entries of the dictionary are
\* evaluated in order and the first exception ends the call.
month_calendar(fw, kw, now) ==
    Let(get_current_month(kw, now), LAMBDA cur :
    IF cur.exc # "none" THEN cur ELSE
    Let(get_month_days(fw, cur.val), LAMBDA days :
    IF days.exc # "none" THEN days ELSE
    Let(get_previous_month(cur.val), LAMBDA prev :
    IF prev.exc # "none" THEN prev ELSE
    Let(get_next_month(cur.val), LAMBDA next :
    IF next.exc # "none" THEN next ELSE
    Return([now |-> now,
            month_days |-> days.val,
            month_current |-> cur.val,
            month_previous |-> prev.val,
            month_next |-> next.val,
            week_names |-> get_week_names(fw)])))))

(***************************************************************************)
(* WeekCalendarMixin                                                       *)
(***************************************************************************)
NoWeek == <<>>

\* date + datetime.timedelta(days=n) for |n| <= 28: OverflowError when the
\* result leaves MINYEAR..MAXYEAR.
plus_days(d, n) ==
    Let(prevmonth(d.year, d.month), LAMBDA p :
    Let(nextmonth(d.year, d.month), LAMBDA q :
    Let(monthlen(d.year, d.month), LAMBDA len :
    Let(IF d.day + n < 1 THEN <<p[1], p[2], monthlen(p[1], p[2]) + d.day + n>>
        ELSE IF d.day + n > len THEN <<q[1], q[2], d.day + n - len>>
        ELSE <<d.year, d.month, d.day + n>>, LAMBDA r :
        IF r[1] < MINYEAR \/ r[1] > MAXYEAR THEN Raise("OverflowError")
        ELSE Return(D(r[1], r[2], r[3]))))))

\* The date get_week_days looks for: the explicit one when year, month and
\* day are all true values, today otherwise.
get_current_day(kw, now) ==
    IF Truthy(kw.month) /\ Truthy(kw.year) /\ Truthy(kw.day)
    THEN date(int(kw.year), int(kw.month), int(kw.day))
    ELSE Return(now)

\* for week in grid: if date in week: return week; None (NoWeek) when the
\* loop falls through.
first_week_with(grid, d) ==
    Let({w \in 1..Len(grid) : \E i \in 1..Len(grid[w]) : grid[w][i] = d}, LAMBDA hits :
        IF hits = {} THEN NoWeek
        ELSE grid[CHOOSE w \in hits : \A v \in hits : w <= v])

\* Variant: the grid searched is the one of today's month.
get_week_days_of_today(fw, kw, now) ==
    Let(get_current_day(kw, now), LAMBDA d :
    IF d.exc # "none" THEN d ELSE
    Let(monthdatescalendar(fw, now.year, now.month), LAMBDA grid :
    IF grid.exc # "none" THEN grid ELSE
    Return(first_week_with(grid.val, d.val))))

\* WeekCalendarMixin.get_week_days
get_week_days(fw, kw, now) ==
    Let(get_current_day(kw, now), LAMBDA d :
    IF d.exc # "none" THEN d ELSE
    Let(monthdatescalendar(fw, d.val.year, d.val.month), LAMBDA grid :
    IF grid.exc # "none" THEN grid ELSE
    Return(first_week_with(grid.val, d.val))))

\* WeekCalendarMixin.get_week_calendar; days[0] of None is a TypeError.
week_calendar(fw, kw, now) ==
    Let(get_week_days(fw, kw, now), LAMBDA days :
    IF days.exc # "none" THEN days ELSE
    IF days.val = NoWeek THEN Raise("TypeError") ELSE
    Let(days.val[1], LAMBDA first :
    Let(plus_days(first, -7), LAMBDA prev :
    IF prev.exc # "none" THEN prev ELSE
    Let(plus_days(first, 7), LAMBDA next :
    IF next.exc # "none" THEN next ELSE
    Return([now |-> now,
            week_days |-> days.val,
            week_previous |-> prev.val,
            week_next |-> next.val,
            week_names |-> get_week_names(fw),
            week_first |-> first,
            week_last |-> days.val[Len(days.val)]])))))

(***************************************************************************)
(* Python dict                                                             *)
(***************************************************************************)
dict_has(d, k) == \E i \in 1..Len(d) : d[i][1] = k

dict_index(d, k) == CHOOSE i \in 1..Len(d) : d[i][1] = k

dict_get(d, k) == d[dict_index(d, k)][2]

\* d[k] = v: a key already present keeps its position.
dict_set(d, k, v) ==
    IF dict_has(d, k) THEN [d EXCEPT ![dict_index(d, k)] = <<k, v>>]
    ELSE Append(d, <<k, v>>)

\* for week in days for day in week
RECURSIVE flatten(_)
flatten(days) == IF days = <<>> THEN <<>> ELSE Head(days) \o flatten(Tail(days))

\* {day: [] for day in keys}: one entry per distinct key, at the position of
\* its first occurrence.
dict_of_empty_lists(keys) ==
    Let(keys, LAMBDA ks :
    Let(SelectSeq(list([i \in 1..Len(ks) |-> i]),
                  LAMBDA i : \A j \in 1..(i - 1) : ks[j] # ks[i]), LAMBDA firsts :
        list([n \in 1..Len(firsts) |-> <<ks[firsts[n]], <<>>>>])))

\* [{key: d[key] for key in islice(d, i, i+7)} for i in range(0, size, 7)]
chunks_of_7(d, size) ==
    list([c \in 1..((size + 6) \div 7) |->
            SubSeq(d, 7 * (c - 1) + 1, IF 7 * c <= Len(d) THEN 7 * c ELSE Len(d))])

(***************************************************************************)
(* WeekWithScheduleMixin / MonthWithScheduleMixin                          *)
(***************************************************************************)
date_field == "date"

\* model.objects.filter(date__range=(start, end)): the stored records whose
\* date lies in [start, end], in the order the store returns them.
filter_range(objs, start, end) ==
    Let(toordinal(start), LAMBDA lo :
    Let(toordinal(end), LAMBDA hi :
        SelectSeq(objs, LAMBDA o : Let(toordinal(o.date), LAMBDA x : lo <= x /\ x <= hi))))

\* Variant: the day's list is replaced by the new item.
RECURSIVE append_each_overwriting(_, _)
append_each_overwriting(d, items) ==
    IF items = <<>> THEN Return(d)
    ELSE Let(Head(items), LAMBDA it :
         IF ~dict_has(d, it.key) THEN Raise("KeyError")
         ELSE append_each_overwriting(dict_set(d, it.key, <<it.item>>), Tail(items)))

\* Variant: the new item goes to the front of the day's list.
RECURSIVE append_each_in_front(_, _)
append_each_in_front(d, items) ==
    IF items = <<>> THEN Return(d)
    ELSE Let(Head(items), LAMBDA it :
         IF ~dict_has(d, it.key) THEN Raise("KeyError")
         ELSE append_each_in_front(dict_set(d, it.key, <<it.item>> \o dict_get(d, it.key)),
                                   Tail(items)))

\* for schedule in queryset: day_schedules[schedule_date].append(schedule);
\* a date that is no key of the dict is a KeyError.
RECURSIVE append_each(_, _)
append_each(d, items) ==
    IF items = <<>> THEN Return(d)
    ELSE Let(Head(items), LAMBDA it :
         IF ~dict_has(d, it.key) THEN Raise("KeyError")
         ELSE append_each(dict_set(d, it.key, Append(dict_get(d, it.key), it.item)),
                          Tail(items)))

\* getattr(schedule, self.date_field) of each record
by_date(queryset) ==
    list([i \in 1..Len(queryset) |-> [key |-> queryset[i].date, item |-> queryset[i]]])

get_week_schedules(objs, start, end, days) ==
    Let(by_date(filter_range(objs, start, end)), LAMBDA items :
    Let(dict_of_empty_lists(days), LAMBDA day_schedules :
        append_each(day_schedules, items)))

get_month_schedules(objs, start, end, days) ==
    Let(by_date(filter_range(objs, start, end)), LAMBDA items :
    Let(dict_of_empty_lists(flatten(days)), LAMBDA day_schedules :
    Let(append_each(day_schedules, items), LAMBDA r :
        IF r.exc # "none" THEN r ELSE Return(chunks_of_7(r.val, Len(r.val))))))

\* WeekWithScheduleMixin.get_week_calendar
week_schedule_calendar(fw, kw, now, objs) ==
    Let(week_calendar(fw, kw, now), LAMBDA c :
    IF c.exc # "none" THEN c ELSE
    Let(get_week_schedules(objs, c.val.week_first, c.val.week_last, c.val.week_days),
        LAMBDA s :
    IF s.exc # "none" THEN s ELSE
    Return([now |-> c.val.now,
            week_days |-> c.val.week_days,
            week_previous |-> c.val.week_previous,
            week_next |-> c.val.week_next,
            week_names |-> c.val.week_names,
            week_first |-> c.val.week_first,
            week_last |-> c.val.week_last,
            week_day_schedules |-> s.val])))

\* month_days[0][0] and month_days[-1][-1]
month_first(month_days) == month_days[1][1]

month_last(month_days) ==
    Let(month_days[Len(month_days)], LAMBDA week : week[Len(week)])

\* MonthWithScheduleMixin.get_month_calendar
month_schedule_calendar(fw, kw, now, objs) ==
    Let(month_calendar(fw, kw, now), LAMBDA c :
    IF c.exc # "none" THEN c ELSE
    Let(c.val.month_days, LAMBDA month_days :
    Let(get_month_schedules(objs, month_first(month_days), month_last(month_days),
                            month_days), LAMBDA s :
    IF s.exc # "none" THEN s ELSE
    Return([now |-> c.val.now,
            month_days |-> month_days,
            month_current |-> c.val.month_current,
            month_previous |-> c.val.month_previous,
            month_next |-> c.val.month_next,
            week_names |-> c.val.week_names,
            month_day_schedules |-> s.val]))))

(***************************************************************************)
(* MonthWithFormsMixin                                                     *)
(***************************************************************************)
RECURSIVE sum_len(_)
sum_len(days) == IF days = <<>> THEN 0 ELSE Len(Head(days)) + sum_len(Tail(days))

\* The formset built by modelformset_factory(model, form_class, extra=n):
\* one bound form per record of the queryset (initial_forms) and the blank
\* forms (extra_forms).  An unbound formset (GET) has the n blank forms asked
\* for (the store is far below the formset's max_num); a formset bound to
\* request.POST has as many as the submitted management form counts.
FormClass(extra, meth, posted, queryset) ==
    [initial_forms |->
        list([i \in 1..Len(queryset) |-> [kind |-> "bound", instance |-> queryset[i]]]),
     extra_forms |->
        list([i \in 1..(IF meth = "POST" THEN posted ELSE extra) |->
                [kind |-> "extra", index |-> i, initial |-> {}]])]

Min(a, b) == IF a <= b THEN a ELSE b

\* The first n forms get the day at their position as their initial date
\* and are appended to that day's list.
pair_up(extra_forms, day_forms, n) ==
    Let(list([i \in 1..Len(extra_forms) |->
                IF i <= n
                THEN [extra_forms[i] EXCEPT !.initial = {<<date_field, day_forms[i][1]>>}]
                ELSE extra_forms[i]]), LAMBDA forms :
        [forms |-> forms,
         day_forms |-> list([i \in 1..Len(day_forms) |->
                               IF i <= n
                               THEN <<day_forms[i][1], Append(day_forms[i][2], forms[i])>>
                               ELSE day_forms[i]])])

\* Variant: nothing is paired unless the two lengths agree.
place_extra_forms_strict(extra_forms, day_forms) ==
    pair_up(extra_forms, day_forms,
            IF Len(extra_forms) = Len(day_forms) THEN Len(day_forms) ELSE 0)

\* for empty_form, (date, empty_list) in zip(formset.extra_forms, day_forms.items()):
\* the pairs stop at the shorter of the two.
place_extra_forms(extra_forms, day_forms) ==
    pair_up(extra_forms, day_forms, Min(Len(extra_forms), Len(day_forms)))

\* getattr(bound_form.instance, self.date_field) of each bound form
by_instance_date(forms) ==
    list([i \in 1..Len(forms) |-> [key |-> forms[i].instance.date, item |-> forms[i]]])

\* The body of get_month_forms once days_count is known.
month_forms(objs, meth, posted, start, end, days, days_count) ==
    Let(FormClass(days_count, meth, posted, filter_range(objs, start, end)), LAMBDA formset :
    Let(dict_of_empty_lists(flatten(days)), LAMBDA day_forms :
    Let(place_extra_forms(formset.extra_forms, day_forms), LAMBDA placed :
    Let(append_each(placed.day_forms, by_instance_date(formset.initial_forms)), LAMBDA r :
        IF r.exc # "none" THEN r
        ELSE Return([month_day_forms |-> chunks_of_7(r.val, days_count),
                     month_formset |-> [initial_forms |-> formset.initial_forms,
                                        extra_forms |-> placed.forms]])))))

\* Variant: days_count counts the weeks instead of the days.
get_month_forms_per_week(objs, meth, posted, start, end, days) ==
    month_forms(objs, meth, posted, start, end, days, Len(days))

\* get_month_forms: the weekly buckets and the formset kept in month_formset;
\* days_count = sum(len(week) for week in days).
get_month_forms(objs, meth, posted, start, end, days) ==
    month_forms(objs, meth, posted, start, end, days, sum_len(days))

\* MonthWithFormsMixin.get_month_calendar
month_forms_calendar(fw, kw, now, objs, meth, posted) ==
    Let(month_calendar(fw, kw, now), LAMBDA c :
    IF c.exc # "none" THEN c ELSE
    Let(c.val.month_days, LAMBDA month_days :
    Let(get_month_forms(objs, meth, posted, month_first(month_days),
                        month_last(month_days), month_days), LAMBDA f :
    IF f.exc # "none" THEN f ELSE
    Return([now |-> c.val.now,
            month_days |-> month_days,
            month_current |-> c.val.month_current,
            month_previous |-> c.val.month_previous,
            month_next |-> c.val.month_next,
            week_names |-> c.val.week_names,
            month_day_forms |-> f.val.month_day_forms,
            month_formset |-> f.val.month_formset]))))

(***************************************************************************)
(* Requests                                                                *)
(***************************************************************************)
MaxRecords == 2

MaxPosted == 43

\* Dates of the stored Schedule records.
RecordDates == {D(2024, 2, 1), D(2024, 2, 15), D(2024, 3, 4)}

\* The stored records: primary keys 1.. in the order the store returns them.
Stores ==
    UNION {{[i \in 1..n |-> [pk |-> i, date |-> f[i]]] : f \in [1..n -> RecordDates]} :
           n \in 0..MaxRecords}

Clock == {D(2024, 2, 29), D(2023, 12, 31)}

\* Number of blank forms a submitted management form may announce.
PostedCounts == {0, 35, 42, MaxPosted}

Years == {0, 1, 1900, 2000, 2023, 2024, 9999, 10000}

AllKwargs ==
    [year : {None, StrV(0)} \cup {IntV(y) : y \in Years},
     month : {None, StrV(0)} \cup {IntV(m) : m \in 0..13},
     day : {None, StrV(0)} \cup {IntV(d) : d \in {0, 1, 15, 28, 29, 30, 31, 32}}]

SomeKwargs ==
    [year : {IntV(2024)},
     month : {IntV(0), IntV(2), IntV(13)},
     day : {IntV(15)}]

Idle ==
    /\ first_weekday \in 0..6
    /\ kwargs = [year |-> None, month |-> None, day |-> None]
    /\ method = "GET"
    /\ POST = 0
    /\ today \in Clock
    /\ pc = "idle"
    /\ view = "none"
    /\ exc = "none"
    /\ context = <<>>

Init == Idle /\ objects \in Stores

InitCal == Idle /\ objects = <<>>

\* A request is routed to a freshly constructed view: the URL supplies
\* kwargs, the request its method and submitted data.
Dispatch(K, M) ==
    /\ pc = "idle"
    /\ \E kw \in K, m \in M :
         /\ kwargs' = kw
         /\ method' = m
         /\ POST' \in (IF m = "POST" THEN PostedCounts ELSE {0})
    /\ pc' = "dispatched"
    /\ UNCHANGED <<first_weekday, objects, today, view, exc, context>>

Request == Dispatch(SomeKwargs, {"GET", "POST"})

RequestCal == Dispatch(AllKwargs, {"GET"})

\* A get_*_calendar call ends: the context it returns or the exception it
\* raises.
Respond(name, r) ==
    /\ pc = "dispatched"
    /\ pc' = "done"
    /\ view' = name
    /\ exc' = r.exc
    /\ context' = r.val
    /\ UNCHANGED <<first_weekday, objects, kwargs, method, POST, today>>

MonthCalendar ==
    \E r \in {month_calendar(first_weekday, kwargs, today)} : Respond("MonthCalendar", r)

WeekCalendar ==
    \E r \in {week_calendar(first_weekday, kwargs, today)} : Respond("WeekCalendar", r)

WeekWithSchedule ==
    \E r \in {week_schedule_calendar(first_weekday, kwargs, today, objects)} :
        Respond("WeekWithSchedule", r)

MonthWithSchedule ==
    \E r \in {month_schedule_calendar(first_weekday, kwargs, today, objects)} :
        Respond("MonthWithSchedule", r)

MonthWithForms ==
    \E r \in {month_forms_calendar(first_weekday, kwargs, today, objects, method, POST)} :
        Respond("MonthWithForms", r)

Next ==
    \/ Request
    \/ MonthCalendar
    \/ WeekCalendar
    \/ WeekWithSchedule
    \/ MonthWithSchedule
    \/ MonthWithForms

NextCal ==
    \/ RequestCal
    \/ MonthCalendar
    \/ WeekCalendar

Spec == Init /\ [][Next]_vars

SpecCal == InitCal /\ [][NextCal]_vars

(***************************************************************************)
(* Properties of the calendar grid and the navigators (SpecCal)            *)
(***************************************************************************)
Done(v) == pc = "done" /\ view = v

\* The first-of-month date the month views work on.
Cur == get_current_month(kwargs, today)

\* The date the week views look for.
Day == get_current_day(kwargs, today)

Consecutive(s) == \A i \in 1..(Len(s) - 1) : toordinal(s[i + 1]) = toordinal(s[i]) + 1

Contains(s, d) == \E i \in 1..Len(s) : s[i] = d

\* The two months whose completed weeks leave datetime.date's range.
GridUnrepresentable(fw, d) ==
    \/ d.year = MINYEAR /\ d.month = 1 /\ fw # 0
    \/ d.year = MAXYEAR /\ d.month = 12 /\ fw # 5

WellFormedGrid(g, fst) ==
    LET all == flatten(g)
    IN  /\ \A w \in 1..Len(g) : Len(g[w]) = 7
        /\ Consecutive(all)
        /\ \A d \in 1..monthlen(fst.year, fst.month) :
             Contains(all, D(fst.year, fst.month, d))

\* C1 as stated: for every (year, month) and first_weekday, get_month_days
\* returns weeks of exactly 7 dates, consecutive across the whole grid, that
\* contain every day of the month.
C1_AsStated ==
    (Done("MonthCalendar") /\ Cur.exc = "none") =>
        LET g == get_month_days(first_weekday, Cur.val)
        IN  g.exc = "none" /\ WellFormedGrid(g.val, Cur.val)

\* C1 amended: the same, except for January of year 1 (first_weekday # 0) and
\* December of year 9999 (first_weekday # 5), where get_month_days raises
\* ValueError; the grid put in the context is the one get_month_days returns.
C1_MonthGrid ==
    (Done("MonthCalendar") /\ Cur.exc = "none") =>
        LET g == get_month_days(first_weekday, Cur.val)
        IN  IF GridUnrepresentable(first_weekday, Cur.val)
            THEN g.exc = "ValueError" /\ exc = "ValueError"
            ELSE /\ g.exc = "none"
                 /\ WellFormedGrid(g.val, Cur.val)
                 /\ exc = "none" => WellFormedGrid(context.month_days, context.month_current)

C1_Witness ==
    /\ Done("MonthCalendar") /\ exc = "none"
    /\ first_weekday = 6
    /\ context.month_current = D(2024, 6, 1)
    /\ Len(context.month_days) = 6
    /\ context.month_days[1][1] = D(2024, 5, 26)
    /\ context.month_days[6][7] = D(2024, 7, 6)

\* C4 as stated: for any first-of-month date d,
\* get_previous_month(get_next_month(d)) = d, with the year wrapping.
C4_AsStated ==
    (Done("MonthCalendar") /\ Cur.exc = "none") =>
        LET n == get_next_month(Cur.val)
        IN  n.exc = "none" /\ get_previous_month(n.val) = Return(Cur.val)

\* C4 amended: for any first-of-month date d other than 9999-12-01 (where
\* get_next_month raises ValueError), get_previous_month(get_next_month(d)) = d;
\* get_next_month turns December into January of the next year, and
\* get_previous_month turns January into December of the year before (and
\* raises ValueError for 0001-01-01); both results have day 1.
C4_Navigators ==
    (Done("MonthCalendar") /\ Cur.exc = "none") =>
        LET d == Cur.val
            n == get_next_month(d)
            p == get_previous_month(d)
        IN  /\ IF d.year = MAXYEAR /\ d.month = 12
               THEN n.exc = "ValueError"
               ELSE /\ n.exc = "none"
                    /\ n.val.day = 1
                    /\ n.val.month = (IF d.month = 12 THEN 1 ELSE d.month + 1)
                    /\ n.val.year = (IF d.month = 12 THEN d.year + 1 ELSE d.year)
                    /\ get_previous_month(n.val) = Return(d)
                    /\ toordinal(n.val) = toordinal(d) + monthlen(d.year, d.month)
            /\ IF d.year = MINYEAR /\ d.month = 1
               THEN p.exc = "ValueError"
               ELSE /\ p.exc = "none"
                    /\ p.val.day = 1
                    /\ p.val.month = (IF d.month = 1 THEN 12 ELSE d.month - 1)
                    /\ p.val.year = (IF d.month = 1 THEN d.year - 1 ELSE d.year)
            /\ exc = "none" => context.month_next = n.val /\ context.month_previous = p.val

C4_Witness ==
    /\ Done("MonthCalendar") /\ exc = "none"
    /\ context.month_current = D(2023, 12, 1)
    /\ context.month_next = D(2024, 1, 1)
    /\ get_previous_month(context.month_next) = Return(D(2023, 12, 1))

\* C5 as stated: for every valid date and first_weekday, get_week_days
\* returns a week of 7 consecutive dates of the month grid that contains the
\* date, and never falls through without a week.
C5_AsStated ==
    (Done("WeekCalendar") /\ Day.exc = "none") =>
        LET w == get_week_days(first_weekday, kwargs, today)
        IN  /\ w.exc = "none"
            /\ w.val # NoWeek
            /\ Len(w.val) = 7 /\ Consecutive(w.val) /\ Contains(w.val, Day.val)

\* C5 amended: the same for every valid date whose month grid is
\* representable; for a date in January of year 1 (first_weekday # 0) or
\* December of year 9999 (first_weekday # 5) get_week_days raises ValueError.
\* In no case does the search end without a week.
C5_WeekContaining ==
    (Done("WeekCalendar") /\ Day.exc = "none") =>
        LET w == get_week_days(first_weekday, kwargs, today)
            g == monthdatescalendar(first_weekday, Day.val.year, Day.val.month)
        IN  /\ exc # "TypeError"
            /\ IF GridUnrepresentable(first_weekday, Day.val)
               THEN w.exc = "ValueError" /\ exc = "ValueError"
               ELSE /\ w.exc = "none"
                    /\ w.val # NoWeek
                    /\ Len(w.val) = 7 /\ Consecutive(w.val) /\ Contains(w.val, Day.val)
                    /\ \E i \in 1..Len(g.val) : g.val[i] = w.val
                    /\ exc = "none" => context.week_days = w.val

C5_Witness ==
    /\ Done("WeekCalendar") /\ exc = "none"
    /\ first_weekday = 0
    /\ kwargs = [year |-> IntV(2024), month |-> IntV(2), day |-> IntV(15)]
    /\ context.week_days[1] = D(2024, 2, 12)
    /\ context.week_days[7] = D(2024, 2, 18)

Given(v) == v # None

\* C9: explicit year/month(/day) parameters that do not form a valid date
\* make get_current_month and get_week_days fail with ValueError; they never
\* fall back to the current date.
C9_InvalidDate ==
    /\ (/\ Done("MonthCalendar")
        /\ Given(kwargs.year) /\ Given(kwargs.month)
        /\ ~ValidDate(int(kwargs.year), int(kwargs.month), 1))
       => exc = "ValueError"
    /\ (/\ Done("WeekCalendar")
        /\ Given(kwargs.year) /\ Given(kwargs.month) /\ Given(kwargs.day)
        /\ ~ValidDate(int(kwargs.year), int(kwargs.month), int(kwargs.day)))
       => exc = "ValueError"

AlignedMinimalGrid(g, fw, fst) ==
    /\ \A w \in 1..Len(g) : weekday(g[w][1]) = fw
    /\ Contains(g[1], fst)
    /\ Contains(g[Len(g)], D(fst.year, fst.month, monthlen(fst.year, fst.month)))
    /\ 4 <= Len(g) /\ Len(g) <= 6
    /\ LET all == flatten(g)
           lo == toordinal(month_first(g))
           hi == toordinal(month_last(g))
       IN  /\ hi - lo + 1 = Len(all)
           /\ \A i \in 1..Len(all) : lo <= toordinal(all[i]) /\ toordinal(all[i]) <= hi
           /\ \A i, j \in 1..Len(all) : all[i] = all[j] => i = j

\* C10 as stated: for every (year, month) and first_weekday the month grid is
\* aligned on first_weekday and minimal, has 4 to 6 weeks, and the range
\* [grid[0][0], grid[-1][-1]] spans exactly the grid's days.
C10_AsStated ==
    (Done("MonthCalendar") /\ Cur.exc = "none") =>
        LET g == get_month_days(first_weekday, Cur.val)
        IN  g.exc = "none" /\ AlignedMinimalGrid(g.val, first_weekday, Cur.val)

\* C10 amended: the same for every month whose grid is representable, that
\* is all but January of year 1 (first_weekday # 0) and December of year 9999
\* (first_weekday # 5), for which no grid is returned.
C10_AlignedMinimal ==
    (Done("MonthCalendar") /\ Cur.exc = "none"
        /\ ~GridUnrepresentable(first_weekday, Cur.val)) =>
        LET g == get_month_days(first_weekday, Cur.val)
        IN  g.exc = "none" /\ AlignedMinimalGrid(g.val, first_weekday, Cur.val)

C10_Witness ==
    /\ Done("MonthCalendar") /\ exc = "none"
    /\ first_weekday = 2
    /\ context.month_current = D(2023, 2, 1)
    /\ Len(context.month_days) = 4
    /\ month_first(context.month_days) = D(2023, 2, 1)
    /\ month_last(context.month_days) = D(2023, 2, 28)

(***************************************************************************)
(* Properties of the schedule and form binders (Spec)                      *)
(***************************************************************************)
\* The month calendar the schedule and form views start from was built.
MonthCalendarBuilt == month_calendar(first_weekday, kwargs, today).exc = "none"

RECURSIVE total_len(_)
total_len(d) == IF d = <<>> THEN 0 ELSE Len(Head(d)[2]) + total_len(Tail(d))

\* The stored records whose date is one of the given days, in stored order.
RecordsOn(days) == SelectSeq(objects, LAMBDA o : Contains(days, o.date))

\* C2: get_month_schedules never drops a record: it raises nothing, and the
\* lengths of all per-day lists of all weekly buckets add up to the number of
\* records the record source returned for the grid span.
C2_NoRecordDropped ==
    (Done("MonthWithSchedule") /\ MonthCalendarBuilt) =>
        /\ exc = "none"
        /\ total_len(flatten(context.month_day_schedules))
             = Len(RecordsOn(flatten(context.month_days)))

C2_Witness ==
    /\ Done("MonthWithSchedule") /\ exc = "none"
    /\ first_weekday = 0
    /\ context.month_current = D(2024, 2, 1)
    /\ Len(objects) = 2
    /\ objects[1].date = D(2024, 3, 4)
    /\ objects[2].date = D(2024, 2, 15)
    /\ total_len(flatten(context.month_day_schedules)) = 1

\* C3: get_month_schedules returns one bucket per week of the grid, in grid
\* order; the keys of the i-th bucket are the 7 dates of the i-th week in
\* order; each day lists exactly the records of that date, in the order the
\* record source returned them.
C3_WeeklyBuckets ==
    (Done("MonthWithSchedule") /\ exc = "none") =>
        LET days == context.month_days
            buckets == context.month_day_schedules
            records == RecordsOn(flatten(days))
        IN  /\ Len(buckets) = Len(days)
            /\ \A i \in 1..Len(days) :
                 /\ Len(buckets[i]) = 7
                 /\ \A j \in 1..7 :
                      /\ buckets[i][j][1] = days[i][j]
                      /\ buckets[i][j][2] = SelectSeq(records, LAMBDA o : o.date = days[i][j])

C3_Witness ==
    /\ Done("MonthWithSchedule") /\ exc = "none"
    /\ first_weekday = 0
    /\ context.month_current = D(2024, 2, 1)
    /\ context.month_day_schedules[1][4]
         = <<D(2024, 2, 1), <<[pk |-> 1, date |-> D(2024, 2, 1)],
                              [pk |-> 2, date |-> D(2024, 2, 1)]>>>>

\* Number of blank forms the formset supplies for a request.
Supplied(n) == Len(FormClass(n, method, POST, <<>>).extra_forms)

BlankForms(forms) == SelectSeq(forms, LAMBDA f : f.kind = "extra")

BoundForms(forms) == SelectSeq(forms, LAMBDA f : f.kind = "bound")

\* Every bound form sits in the bucket of the date of its record, and only
\* there, in formset order.
BoundFormsByDate(day_forms, formset) ==
    \A k \in 1..Len(day_forms) :
        BoundForms(day_forms[k][2])
          = SelectSeq(formset.initial_forms, LAMBDA f : f.instance.date = day_forms[k][1])

OneBlankFormPerDay(day_forms, days) ==
    /\ Len(day_forms) = Len(days)
    /\ \A k \in 1..Len(days) :
         /\ day_forms[k][1] = days[k]
         /\ BlankForms(day_forms[k][2])
              = <<[kind |-> "extra", index |-> k, initial |-> {<<date_field, days[k]>>}]>>

Mismatch ==
    /\ Done("MonthWithForms")
    /\ MonthCalendarBuilt
    /\ Supplied(sum_len(get_month_days(first_weekday, Cur.val).val))
         # sum_len(get_month_days(first_weekday, Cur.val).val)

====
